---- MODULE Spec2Model ----
(* Model of the user-management API in src/main.py: signup, signin,     *)
(* forget_password and reset_password over the users table, each request *)
(* handled by its own session with an await between its SELECT and its  *)
(* commit, so requests interleave.                                       *)
EXTENDS Integers, Sequences, FiniteSets, TLC

\* ---------------- bounds ----------------
MaxTok == 2
MaxLen == 4

Emails == {"a@x.io", "b@x.io"}
Req == {1, 2}
Chars == {"A", "a", "@", "1"}
\* passwords used by the API requests: empty, weak (lowercase first), two valid
PwSet == {<<>>, <<"a", "@", "1">>, <<"A", "@", "1">>, <<"A", "1", "@">>}
NoTok == 0
Tokens == 1..MaxTok

\* str.isupper / str.isdigit on the characters of Chars
IsUpper(c) == c = "A"
IsDigit(c) == c = "1"

\* validate_password: password[0] is evaluated first and raises IndexError on ""
ValidatePassword(p) ==
  IF Len(p) = 0 THEN "IndexError"
  ELSE IF ~IsUpper(p[1]) THEN "False"
  ELSE IF ~(\E i \in 1..Len(p) : p[i] = "@") THEN "False"
  ELSE IF ~(\E i \in 1..Len(p) : IsDigit(p[i])) THEN "False"
  ELSE "True"

VARIABLES users, nextTok, issued, consumed, lastTok, reqs, vpw, vres

mainVars == <<users, nextTok, issued, consumed, lastTok, reqs>>
valVars == <<vpw, vres>>
vars == <<users, nextTok, issued, consumed, lastTok, reqs, vpw, vres>>

NoUser == [reg |-> FALSE, pw |-> <<>>, tok |-> NoTok]
IdleReq == [pc |-> "idle", kind |-> "none", email |-> "none", pw |-> <<>>,
            tok |-> NoTok, res |-> "none", user |-> "none", loaded |-> <<>>]

Init ==
  /\ users = [e \in Emails |-> NoUser]
  /\ nextTok = 1
  /\ issued = [e \in Emails |-> {}]
  /\ consumed = {}
  /\ lastTok = [e \in Emails |-> NoTok]
  /\ reqs = [r \in Req |-> IdleReq]
  /\ vpw = <<>>
  /\ vres = "none"

Free(r) == reqs[r].pc \in {"idle", "done"}

\* a request finishes with response res (an exception name for an unhandled
\* exception, i.e. HTTP 500); only kind, token and response are kept
Finish(r, req, res) ==
  reqs' = [reqs EXCEPT ![r] = [IdleReq EXCEPT !.pc = "done", !.kind = req.kind,
                                              !.tok = req.tok, !.res = res]]

\* signup, lines 69-78: validate, then SELECT by email
SignupLookupWith(r, e, p) ==
  /\ Free(r)
  /\ LET req == [IdleReq EXCEPT !.kind = "signup", !.email = e, !.pw = p]
         v == ValidatePassword(p)
     IN IF v = "IndexError" THEN Finish(r, req, "IndexError")
        ELSE IF v = "False" THEN Finish(r, req, "WeakPassword")
        ELSE IF users[e].reg THEN Finish(r, req, "EmailTaken")
        ELSE reqs' = [reqs EXCEPT ![r] = [req EXCEPT !.pc = "commit"]]
  /\ UNCHANGED <<users, nextTok, issued, consumed, lastTok, vpw, vres>>

SignupLookup(r) == \E e \in Emails, p \in PwSet : SignupLookupWith(r, e, p)

\* signup, lines 80-83: INSERT on commit; the unique index on email raises
\* IntegrityError (unhandled, HTTP 500) when another request inserted meanwhile
SignupCommit(r) ==
  /\ reqs[r].pc = "commit" /\ reqs[r].kind = "signup"
  /\ LET e == reqs[r].email IN
       IF users[e].reg
       THEN /\ Finish(r, reqs[r], "IntegrityError")
            /\ UNCHANGED users
       ELSE /\ users' = [users EXCEPT ![e] = [reg |-> TRUE, pw |-> reqs[r].pw, tok |-> NoTok]]
            /\ Finish(r, reqs[r], "ok")
  /\ UNCHANGED <<nextTok, issued, consumed, lastTok, vpw, vres>>

\* signin, lines 88-93: SELECT by email, compare the stored password
SigninBad(e, p) ==
  IF ~users[e].reg THEN "EmailNotFound"
  ELSE IF users[e].pw # p THEN "InvalidCredentials" ELSE "ok"
Signin(e, p) ==
  IF ~users[e].reg \/ users[e].pw # p THEN "InvalidCredentials" ELSE "ok"

SigninWith(r, e, p) ==
  /\ Free(r)
  /\ Finish(r, [IdleReq EXCEPT !.kind = "signin", !.email = e, !.pw = p], Signin(e, p))
  /\ UNCHANGED <<users, nextTok, issued, consumed, lastTok, vpw, vres>>

SigninStep(r) == \E e \in Emails, p \in PwSet : SigninWith(r, e, p)

\* forget_password, lines 98-101: SELECT by email
ForgetLookupWith(r, e) ==
  /\ Free(r)
  /\ LET req == [IdleReq EXCEPT !.kind = "forget", !.email = e] IN
       IF ~users[e].reg THEN Finish(r, req, "EmailNotFound")
       ELSE reqs' = [reqs EXCEPT ![r] = [req EXCEPT !.pc = "commit", !.user = e]]
  /\ UNCHANGED <<users, nextTok, issued, consumed, lastTok, vpw, vres>>

ForgetLookup(r) == \E e \in Emails : ForgetLookupWith(r, e)

\* secrets.token_hex(16): a fresh token (collisions have probability 2^-128)
GenTokenFixed(n) == 1
GenToken(n) == n

\* forget_password, lines 103-106: UPDATE users SET reset_token on commit
ForgetCommitKeep(r) ==
  /\ reqs[r].pc = "commit" /\ reqs[r].kind = "forget"
  /\ nextTok <= MaxTok
  /\ LET e == reqs[r].user
         t == GenToken(nextTok)
     IN /\ users' = [users EXCEPT ![e].tok = IF @ = NoTok THEN t ELSE @]
        /\ nextTok' = nextTok + 1
        /\ issued' = [issued EXCEPT ![e] = @ \cup {t}]
        /\ lastTok' = [lastTok EXCEPT ![e] = t]
        /\ Finish(r, [reqs[r] EXCEPT !.tok = t], "ok")
  /\ UNCHANGED <<consumed, vpw, vres>>
ForgetCommit(r) ==
  /\ reqs[r].pc = "commit" /\ reqs[r].kind = "forget"
  /\ nextTok <= MaxTok
  /\ LET e == reqs[r].user
         t == GenToken(nextTok)
     IN /\ users' = [users EXCEPT ![e].tok = t]
        /\ nextTok' = nextTok + 1
        /\ issued' = [issued EXCEPT ![e] = @ \cup {t}]
        /\ lastTok' = [lastTok EXCEPT ![e] = t]
        /\ Finish(r, [reqs[r] EXCEPT !.tok = t], "ok")
  /\ UNCHANGED <<consumed, vpw, vres>>

\* User.reset_token == token: the users holding the token (NULL never matches)
Holders(t) == {e \in Emails : users[e].reg /\ users[e].tok = t}

\* reset_password, lines 111-120: SELECT by reset_token, then validate
ResetLookupWith(r, t, p) ==
  /\ Free(r)
  /\ LET req == [IdleReq EXCEPT !.kind = "reset", !.tok = t, !.pw = p]
         v == ValidatePassword(p)
     IN IF Holders(t) = {} THEN Finish(r, req, "InvalidToken")
        ELSE IF v = "IndexError" THEN Finish(r, req, "IndexError")
        ELSE IF v = "False" THEN Finish(r, req, "WeakPassword")
        ELSE LET u == CHOOSE e \in Holders(t) : TRUE IN
             reqs' = [reqs EXCEPT ![r] = [req EXCEPT !.pc = "commit", !.user = u,
                                                     !.loaded = users[u].pw]]
  /\ UNCHANGED <<users, nextTok, issued, consumed, lastTok, vpw, vres>>

ResetLookup(r) == \E t \in Tokens, p \in PwSet : ResetLookupWith(r, t, p)

\* the session flushes only attributes whose value differs from the loaded one:
\* the password column is written only if new_password differs from it
FlushedPw(r, e) == IF reqs[r].pw # reqs[r].loaded THEN reqs[r].pw ELSE users[e].pw

ResetCommitNoPw(r) ==
  /\ reqs[r].pc = "commit" /\ reqs[r].kind = "reset"
  /\ LET e == reqs[r].user IN
       /\ users' = [users EXCEPT ![e].tok = NoTok]
       /\ consumed' = consumed \cup {reqs[r].tok}
       /\ Finish(r, [reqs[r] EXCEPT !.email = e], "ok")
  /\ UNCHANGED <<nextTok, issued, lastTok, vpw, vres>>
ResetCommitKeepTok(r) ==
  /\ reqs[r].pc = "commit" /\ reqs[r].kind = "reset"
  /\ LET e == reqs[r].user IN
       /\ users' = [users EXCEPT ![e].pw = FlushedPw(r, e)]
       /\ consumed' = consumed \cup {reqs[r].tok}
       /\ Finish(r, [reqs[r] EXCEPT !.email = e], "ok")
  /\ UNCHANGED <<nextTok, issued, lastTok, vpw, vres>>
ResetCommitTokOnly(r) ==
  /\ reqs[r].pc = "commit" /\ reqs[r].kind = "reset"
  /\ LET e == reqs[r].user IN
       /\ users' = [users EXCEPT ![e].pw = FlushedPw(r, e),
                                 ![e].tok = IF @ = reqs[r].tok THEN @ ELSE NoTok]
       /\ consumed' = consumed \cup {reqs[r].tok}
       /\ Finish(r, [reqs[r] EXCEPT !.email = e], "ok")
  /\ UNCHANGED <<nextTok, issued, lastTok, vpw, vres>>
\* reset_password, lines 122-125: UPDATE users SET [password,] reset_token = NULL
\* WHERE id = <loaded id>; nothing re-checks the token at commit time
ResetCommit(r) ==
  /\ reqs[r].pc = "commit" /\ reqs[r].kind = "reset"
  /\ LET e == reqs[r].user IN
       /\ users' = [users EXCEPT ![e].pw = FlushedPw(r, e), ![e].tok = NoTok]
       /\ consumed' = consumed \cup {reqs[r].tok}
       /\ Finish(r, [reqs[r] EXCEPT !.email = e], "ok")
  /\ UNCHANGED <<nextTok, issued, lastTok, vpw, vres>>

Next == \E r \in Req :
          \/ SignupLookup(r) \/ SignupCommit(r) \/ SigninStep(r)
          \/ ForgetLookup(r) \/ ForgetCommit(r)
          \/ ResetLookup(r) \/ ResetCommit(r)
Spec == Init /\ [][Next]_vars

\* validate_password applied to arbitrary strings over Chars
Strs == UNION {[1..n -> Chars] : n \in 0..MaxLen}
Validate ==
  /\ \E p \in Strs : vpw' = p /\ vres' = ValidatePassword(p)
  /\ UNCHANGED mainVars
ValInit == Init
ValNext == Validate
ValSpec == ValInit /\ [][ValNext]_vars
\* ---------------- properties ----------------

\* the reference password policy: non-empty, uppercase first, '@', a digit
RefValid(p) ==
  /\ Len(p) > 0
  /\ IsUpper(p[1])
  /\ \E i \in 1..Len(p) : p[i] = "@"
  /\ \E i \in 1..Len(p) : IsDigit(p[i])

\* C1: validate_password(p) returns True iff p is non-empty, starts with an
\* uppercase letter and contains '@' and a digit; for "" it returns False
\* (it does not raise).
C1_ValidateIsPolicy ==
  vres # "none" => vres = IF RefValid(vpw) THEN "True" ELSE "False"

\* C2: at most one user per email, and every signup with a valid password
\* ends with success or EmailTaken, never with an unhandled store error.
C2_SignupNoFault ==
  \A r \in Req : (reqs[r].pc = "done" /\ reqs[r].kind = "signup")
                   => reqs[r].res # "IntegrityError"

\* C3: signin succeeds iff a user with that email exists and its stored
\* password equals the supplied one; otherwise InvalidCredentials (for an
\* unknown email as for a wrong password); signin changes no user state.
C3_SigninExact ==
  [][\A r \in Req : (Free(r) /\ reqs'[r].kind = "signin") =>
     \A e \in Emails, p \in PwSet :
       SigninWith(r, e, p) =>
         /\ (reqs'[r].res = "ok") <=> (users[e].reg /\ users[e].pw = p)
         /\ reqs'[r].res \in {"ok", "InvalidCredentials"}
         /\ UNCHANGED <<users, nextTok, issued, consumed, lastTok>>]_vars
C3_Witness ==
  \E r1, r2 \in Req : /\ reqs[r1].kind = "signin" /\ reqs[r1].res = "ok"
                      /\ reqs[r2].kind = "signin" /\ reqs[r2].res = "InvalidCredentials"
                      /\ \E e \in Emails : users[e].reg

\* C4: redeeming the token just returned for a user with a valid new password
\* succeeds; afterwards signin with the new password succeeds and signin with
\* the old password (if different) fails with InvalidCredentials, provided no
\* other request changed the user between the lookup and the commit.
C4_ResetThenSignin ==
  [][/\ \A r \in Req : (Free(r) /\ reqs'[r].kind = "reset") =>
        \A e \in Emails, t \in {reqs'[r].tok}, p \in PwSet :
          (ResetLookupWith(r, t, p) /\ users[e].reg /\ t = lastTok[e]
             /\ users[e].tok = t /\ ValidatePassword(p) = "True")
            => reqs'[r].pc = "commit" /\ reqs'[r].user = e
     /\ \A r \in Req :
          (ResetCommit(r) /\ users[reqs[r].user].pw = reqs[r].loaded
                          /\ users[reqs[r].user].tok = reqs[r].tok) =>
          \A e \in {reqs[r].user} : \A old \in {users[e].pw}, new \in {reqs[r].pw} :
            /\ reqs'[r].res = "ok"
            /\ Signin(e, new)' = "ok"
            /\ old # new => Signin(e, old)' = "InvalidCredentials"]_vars
C4_Witness ==
  \E r \in Req, e \in Emails :
     /\ reqs[r].kind = "reset" /\ reqs[r].res = "ok"
     /\ users[e].reg /\ reqs[r].tok \in issued[e] /\ users[e].pw # <<"A", "@", "1">>

\* C5: reset tokens are single-use: a redemption of a token that was already
\* redeemed successfully fails with InvalidToken.
C5_SingleUse ==
  [][\A r \in Req : (Free(r) /\ reqs'[r].kind = "reset") =>
     \A t \in {reqs'[r].tok}, p \in PwSet :
       (ResetLookupWith(r, t, p) /\ t \in consumed) => reqs'[r].res = "InvalidToken"]_vars
C5_Witness ==
  \E r \in Req : /\ reqs[r].kind = "reset" /\ reqs[r].res = "InvalidToken"
                 /\ reqs[r].tok \in consumed

\* C6 (as stated): an overwritten token fails with InvalidToken, and the last
\* token returned for a user stays redeemable until it is itself redeemed.
C6_LastTokenValid ==
  [][\A r \in Req : (Free(r) /\ reqs'[r].kind = "reset") =>
     \A e \in Emails, t \in {reqs'[r].tok}, p \in PwSet :
       ResetLookupWith(r, t, p) =>
         /\ (t \in issued[e] /\ t # lastTok[e]) => reqs'[r].res = "InvalidToken"
         /\ (users[e].reg /\ t = lastTok[e] /\ t \notin consumed
               /\ ValidatePassword(p) = "True") => reqs'[r].pc = "commit"]_vars
\* C6 (amended): an overwritten token fails with InvalidToken, and the last
\* token returned for a user is redeemable while it is still the user's
\* reset_token (a concurrent redemption of an older token can clear it).
C6_StaleTokenInvalid ==
  [][\A r \in Req : (Free(r) /\ reqs'[r].kind = "reset") =>
     \A e \in Emails, t \in {reqs'[r].tok}, p \in PwSet :
       ResetLookupWith(r, t, p) =>
         /\ (t \in issued[e] /\ t # lastTok[e]) => reqs'[r].res = "InvalidToken"
         /\ (users[e].reg /\ t = lastTok[e] /\ users[e].tok = t
               /\ ValidatePassword(p) = "True") => reqs'[r].pc = "commit"]_vars
C6_Witness ==
  \E r \in Req, e \in Emails :
     /\ reqs[r].kind = "reset" /\ reqs[r].res = "InvalidToken"
     /\ reqs[r].tok \in issued[e] /\ reqs[r].tok # lastTok[e]
     /\ reqs[r].tok \notin consumed

\* C7: signup with a password the validator rejects returns WeakPassword and
\* creates no user.
C7_WeakSignup ==
  [][\A r \in Req : (Free(r) /\ reqs'[r].kind = "signup") =>
     \A e \in Emails, p \in PwSet :
       (SignupLookupWith(r, e, p) /\ ValidatePassword(p) # "True")
         => reqs'[r].res = "WeakPassword" /\ users' = users]_vars

\* C8: reset with a token nobody holds returns InvalidToken; with a held token
\* and a rejected password it returns WeakPassword and changes no user.
C8_ResetErrors ==
  [][\A r \in Req : (Free(r) /\ reqs'[r].kind = "reset") =>
     \A t \in {reqs'[r].tok}, p \in PwSet :
       ResetLookupWith(r, t, p) =>
         /\ Holders(t) = {} => reqs'[r].res = "InvalidToken"
         /\ (Holders(t) # {} /\ ValidatePassword(p) # "True")
              => reqs'[r].res = "WeakPassword" /\ users' = users]_vars

\* C9: no two users hold the same reset token, and a held token is one that
\* forget_password returned for that user.
C9_TokensDistinct ==
  /\ \A e1, e2 \in Emails :
       (e1 # e2 /\ users[e1].tok # NoTok) => users[e1].tok # users[e2].tok
  /\ \A e \in Emails : users[e].tok # NoTok => users[e].tok \in issued[e]
C9_Witness ==
  \A e \in Emails : users[e].tok # NoTok

\* C10 (as stated): two redemptions of the same token never both succeed.
C10_AtMostOneRedeem ==
  ~\E r1, r2 \in Req :
     /\ r1 # r2
     /\ reqs[r1].kind = "reset" /\ reqs[r1].pc = "done" /\ reqs[r1].res = "ok"
     /\ reqs[r2].kind = "reset" /\ reqs[r2].pc = "done" /\ reqs[r2].res = "ok"
     /\ reqs[r1].tok = reqs[r2].tok
\* C10 (amended): concurrent redemptions of one token may both succeed, but
\* once a redemption of a token has succeeded no user holds that token.
C10_RedeemedTokenCleared ==
  \A r \in Req : (reqs[r].kind = "reset" /\ reqs[r].pc = "done" /\ reqs[r].res = "ok")
                   => Holders(reqs[r].tok) = {}
C10_Witness == ~C10_AtMostOneRedeem
====
